---- MODULE Spec2Model ----
(***************************************************************************)
(* The provider adapters of git-client (GithubCommon with Github and       *)
(* GithubEnterprise, Gitlab, Bitbucket) as one state machine: a caller     *)
(* invokes one contract operation on one adapter instance, the operation   *)
(* issues its outbound requests, the vendor answers, and the operation     *)
(* settles with a value or an error that the caller then consumes.         *)
(*                                                                         *)
(* Strings that the code builds by concatenation are sequences of string   *)
(* tokens (\o is the concatenation); an optional value is a record         *)
(* [def, s] whose def is FALSE for undefined.                              *)
(***************************************************************************)
EXTENDS Integers, Sequences, FiniteSets, TLC

VARIABLES
  config,     \* GitBase.config of every adapter instance
  pc,         \* "idle" | "waiting" (a request is in flight) | "done"
  call,       \* the operation in progress: [adapter, op, arg]
  requests,   \* the outbound requests this call has issued, in order
  attempts,   \* the vendor's answers to them, in order
  sleeps,     \* the delays (ms) this call has passed to timer()
  lastIndex,  \* lastIndex of the rateLimitRegex object of this exec call
  logs,       \* logger.debug calls of this call
  outcome,    \* how the call's promise settled (or what a sync call returned)
  other       \* a second call in flight, suspended at its await (or none)

vars ==
  <<config, pc, call, requests, attempts, sleeps, lastIndex, logs, outcome, other>>

----------------------------------------------------------------------------
(* Bounds *)

\* the retry loop of exec is `while (true)`: attempts per call are capped here
MaxAttempts == 3

\* the longest tree a vendor answers listFiles with
MaxTree == 3

\* the longest branch list Gitlab answers getDefaultBranch with
MaxBranches == 3

\* the longest tree or branch list answered while two calls are in flight
MaxListConcurrent == 1

----------------------------------------------------------------------------
(* Values *)

Undef == [def |-> FALSE, s |-> <<>>]
Str(tokens) == [def |-> TRUE, s |-> tokens]

\* JavaScript truthiness of an optional string
Truthy(x) == x.def /\ x.s # <<>>

\* `${x}` in a template literal
Tpl(x) == IF x.def THEN x.s ELSE <<"undefined">>

Adapters == {"Github", "GithubEnterprise", "Gitlab", "Bitbucket"}
GithubFamily == {"Github", "GithubEnterprise"}

Branches == {"main", ""}

RepoConfig(branch) ==
  [owner |-> "ibm", repo |-> "git-client", protocol |-> "https",
   host |-> "git.example.com", username |-> "user", password |-> "token",
   branch |-> branch]

NoCall == [adapter |-> "none", op |-> "none", arg |-> Undef]
NoOutcome == [kind |-> "none"]

\* what a call holds of its own while it runs: the locals of the operation
\* and of exec (f, rateLimitRegex, the promise)
NoContext ==
  [pc |-> "idle", call |-> NoCall, requests |-> <<>>, attempts |-> <<>>,
   sleeps |-> <<>>, lastIndex |-> 0, logs |-> <<>>, outcome |-> NoOutcome]

----------------------------------------------------------------------------
(* The vendor's answers *)

RateLimitMessage == "You have exceeded a secondary rate limit"

\* the messages /.*secondary rate limit.*/ matches (each a single line)
RateLimitMessages == {RateLimitMessage}

HookExistsText == "Hook already exists on this repository"

\* the response texts /Hook already exists/ matches
HookExistsTexts == {HookExistsText}

\* a Retry-After header value: a string of digits, or no header
NoHeader == [def |-> FALSE, n |-> 0]
Header(n) == [def |-> TRUE, n |-> n]

\* An error the transport raises.  http: the error carries status and
\* response (a superagent ResponseError); status 0 stands for no status.
HttpError(status, message, retryAfter, text) ==
  [http |-> TRUE, status |-> status, message |-> message,
   retryAfter |-> retryAfter, text |-> text]

\* an Error the adapter itself raises with `new Error(message)` or the
\* runtime raises (a TypeError): no status, no response
JsError(message) ==
  [http |-> FALSE, status |-> 0, message |-> message,
   retryAfter |-> NoHeader, text |-> ""]

NetworkError ==
  [http |-> FALSE, status |-> 0, message |-> "ECONNRESET",
   retryAfter |-> NoHeader, text |-> ""]

Errors ==
  { HttpError(403, RateLimitMessage, NoHeader, "rate limited"),
    HttpError(403, RateLimitMessage, Header(2), "rate limited"),
    HttpError(403, "Forbidden", Header(2), "Resource not accessible"),
    HttpError(500, RateLimitMessage, NoHeader, "rate limited"),
    HttpError(404, "Not Found", NoHeader, "Not Found"),
    HttpError(422, "Unprocessable Entity", NoHeader, HookExistsText),
    HttpError(422, "Unprocessable Entity", NoHeader, "Validation Failed"),
    NetworkError }

\* response.body of a successful pulls request
PullBody ==
  [number |-> "7", head |-> "feature", base |-> "main",
   message |-> "Pull Request successfully merged"]

Ok(body) == [ok |-> TRUE, body |-> body]
Fail(err) == [ok |-> FALSE, err |-> err]

Value(v) == [kind |-> "value", value |-> v]
Thrown(err) == [kind |-> "error", error |-> err]

----------------------------------------------------------------------------
(* GithubCommon: base url and the request helpers *)

GithubBaseUrl(a) ==
  IF a = "Github"
  THEN <<"https://api.github.com/repos/", config[a].owner, "/", config[a].repo>>
  ELSE <<config[a].protocol, "://", config[a].host, "/api/v3/repos/",
         config[a].owner, "/", config[a].repo>>

GithubRequest(a, method, uri, data) ==
  [method |-> method, url |-> GithubBaseUrl(a) \o uri, data |-> data,
   auth |-> <<config[a].username, config[a].password>>,
   accept |-> "application/vnd.github.v3+json"]

----------------------------------------------------------------------------
(* GithubCommon.exec and the four operations it wraps *)

ExecOps ==
  {"getPullRequest", "createPullRequest", "mergePullRequest",
   "updatePullRequestBranch"}

PullNumbers == {"7", "12"}

CreatePullRequestOptions ==
  { [title |-> "t", sourceBranch |-> "feature", targetBranch |-> "main",
     maintainer_can_modify |-> TRUE, draft |-> d] : d \in {"undefined", "true"} }

MergePullRequestOptions ==
  { [pullNumber |-> n, title |-> "t", message |-> "m", method |-> m] :
      n \in PullNumbers, m \in {"merge", "squash"} }

ExecArgs(op) ==
  CASE op = "getPullRequest" -> PullNumbers
    [] op = "createPullRequest" -> CreatePullRequestOptions
    [] op = "mergePullRequest" -> MergePullRequestOptions
    [] op = "updatePullRequestBranch" -> PullNumbers

\* the request the closure f of each operation issues
ExecRequest(a, op, arg) ==
  CASE op = "getPullRequest" ->
         GithubRequest(a, "GET", <<"/pulls/", arg>>, [none |-> TRUE])
    [] op = "createPullRequest" ->
         GithubRequest(a, "POST", <<"/pulls">>,
           [title |-> arg.title, head |-> arg.sourceBranch,
            base |-> arg.targetBranch,
            maintainer_can_modify |-> arg.maintainer_can_modify,
            draft |-> IF arg.draft = "true" THEN "true" ELSE "false"])
    [] op = "mergePullRequest" ->
         GithubRequest(a, "PUT", <<"/pulls/", arg.pullNumber, "/merge">>,
           [commit_title |-> arg.title, commit_message |-> arg.message,
            merge_method |-> arg.method])
    [] op = "updatePullRequestBranch" ->
         GithubRequest(a, "PUT", <<"/pulls/", arg, "/update-branch">>,
           [empty |-> TRUE])

\* what the closure f resolves with, from response.body
ExecResult(op, arg, body) ==
  CASE op = "getPullRequest" ->
         [pullNumber |-> body.number, sourceBranch |-> body.head,
          targetBranch |-> body.base]
    [] op = "createPullRequest" ->
         [pullNumber |-> body.number, sourceBranch |-> arg.sourceBranch,
          targetBranch |-> arg.targetBranch]
    [] op = "mergePullRequest" -> [message |-> body.message]
    [] op = "updatePullRequestBranch" -> [message |-> body.message]

\* how the promise f() settles on the vendor's answer: f awaits the request
\* outside any try, so a failed request rejects f with the transport's error
FSettles(op, arg, answer) ==
  IF answer.ok THEN Value(ExecResult(op, arg, answer.body))
  ELSE Thrown(answer.err)

isResponseError(err) == err.http

\* rateLimitRegex.test(message): the regex has the g flag, so test() searches
\* from lastIndex, moves lastIndex to the end of a match and resets it to 0
\* on a failed search.  Index 1 stands for the end of the (one-line) message.
RegexTest(li, message) ==
  IF message \in RateLimitMessages /\ li = 0
  THEN [matched |-> TRUE, lastIndex |-> 1]
  ELSE [matched |-> FALSE, lastIndex |-> 0]

Jitters == {0, 500, 999}

\* retryAfter * 1000 + 1000 * Math.random(), in whole milliseconds
RetryDelay(header, jitter) ==
  (IF header.def THEN header.n ELSE 30) * 1000 + jitter

\* the catch clause of exec, entered with the error err
ExecCatch(name, err, li, jitter) ==
  IF isResponseError(err) /\ err.status = 403
  THEN LET t == RegexTest(li, err.message) IN
       IF t.matched
       THEN [act |-> "retry", delay |-> RetryDelay(err.retryAfter, jitter),
             lastIndex |-> t.lastIndex,
             log |-> <<name, "Got secondary rate limit error">>]
       ELSE [act |-> "throw", outcome |-> Thrown(err), lastIndex |-> t.lastIndex,
             log |-> <<name, "Error calling api">>]
  ELSE [act |-> "throw", outcome |-> Thrown(err), lastIndex |-> li,
        log |-> <<name, "Error calling api">>]

\* ExecTry with two slips: `return await f()`, and every 403 taken for a
\* rate limit
ExecTryRetriesAny403(name, settled, li, jitter) ==
  IF settled.kind = "error" /\ settled.error.status = 403
  THEN [act |-> "retry", delay |-> RetryDelay(settled.error.retryAfter, jitter),
        lastIndex |-> li, log |-> <<name, "Got secondary rate limit error">>]
  ELSE [act |-> "settle", outcome |-> settled, lastIndex |-> li]

\* the try block of exec, `return f()`: f is an async function, so the call
\* f() completes normally with a promise and the return leaves the try block
\* before that promise settles.  The promise of exec adopts it: the catch
\* clause would run only for an error thrown by the call f() itself.
ExecTry(name, settled, li, jitter) ==
  LET callThrows == FALSE IN
  IF callThrows THEN ExecCatch(name, settled.error, li, jitter)
  ELSE [act |-> "settle", outcome |-> settled, lastIndex |-> li]

----------------------------------------------------------------------------
(* Gitlab and Bitbucket: base url *)

GitlabBaseUrl ==
  <<config["Gitlab"].protocol, "://", config["Gitlab"].host,
    "/api/v4/projects/", config["Gitlab"].owner, "%2F", config["Gitlab"].repo>>

BitbucketBaseUrl ==
  <<config["Bitbucket"].protocol, "://api.bitbucket.org/2.0/repositories/",
    config["Bitbucket"].owner, "/", config["Bitbucket"].repo>>

----------------------------------------------------------------------------
(* createWebhook and buildWebhookData *)

\* CreateWebhook options.  A url is the token sequence of its text, with
\* "://" a token of its own.
WebhookUrls ==
  { Undef,
    Str(<<"http", "://", "hooks.example.com/push">>),
    Str(<<"https", "://", "hooks.example.com/push">>) }

MalformedJenkinsUrl == Str(<<"jenkins.example.com">>)

JenkinsUrls ==
  { Undef,
    Str(<<"http", "://", "jenkins.example.com">>),
    Str(<<"https", "://", "jenkins.example.com", "/">>),
    MalformedJenkinsUrl }

JenkinsCredentials ==
  { <<Undef, Undef>>, <<Str(<<"admin">>), Str(<<"secret">>)>>,
    <<Str(<<"admin">>), Undef>> }

JobNames == {Undef, Str(<<"job">>)}

CreateWebhookOptions ==
  { [webhookUrl |-> w, jenkinsUrl |-> j, jenkinsUser |-> c[1],
     jenkinsPassword |-> c[2], jobName |-> n] :
      w \in WebhookUrls, j \in JenkinsUrls, c \in JenkinsCredentials,
      n \in JobNames }

Built(data) == [threw |-> FALSE, data |-> data]
Throws(err) == [threw |-> TRUE, error |-> err]

TypeError == JsError("Cannot read property '1' of null")

GithubBuildWebhookData(options) ==
  LET url == IF Truthy(options.webhookUrl) THEN options.webhookUrl.s
             ELSE Tpl(options.jenkinsUrl) \o <<"/github-webhook/">>
  IN Built([name |-> "web", events |-> <<"push">>, active |-> TRUE,
            url |-> Str(url), content_type |-> "json", insecure_ssl |-> "0"])

BitbucketBuildWebhookData(options) ==
  Built([description |-> "Webhook", url |-> options.webhookUrl, active |-> TRUE,
         events |-> <<"repo:push">>])

\* /(.*):\/\/(.*)\/*/.exec(url): both groups are greedy, so the match splits
\* the text at its last "://" and the second group takes all that follows;
\* null when the text holds no "://"
UrlParts(tokens) ==
  LET seps == {i \in 1..Len(tokens) : tokens[i] = "://"} IN
  IF seps = {} THEN [null |-> TRUE]
  ELSE LET k == CHOOSE i \in seps : \A j \in seps : j <= i IN
       [null |-> FALSE, protocol |-> SubSeq(tokens, 1, k - 1),
        host |-> SubSeq(tokens, k + 1, Len(tokens))]

DefaultJenkinsUrl == Str(<<"https", "://", "jenkins.local", "/">>)

GitlabBuildWebhookData(options) ==
  LET jenkinsUrl == IF options.jenkinsUrl.def THEN options.jenkinsUrl
                    ELSE DefaultJenkinsUrl
      urlParts == UrlParts(jenkinsUrl.s)
  IN IF urlParts.null THEN Throws(TypeError)
     ELSE LET protocol == urlParts.protocol
              host == urlParts.host
              credentials ==
                IF Truthy(options.jenkinsUser) /\ Truthy(options.jenkinsPassword)
                THEN options.jenkinsUser.s \o <<":">> \o options.jenkinsPassword.s
                       \o <<"@">>
                ELSE <<>>
              url == IF Truthy(options.webhookUrl) THEN options.webhookUrl.s
                     ELSE protocol \o <<"://">> \o credentials \o host
                            \o <<"/project/">> \o Tpl(options.jobName)
          IN Built([id |-> <<config["Gitlab"].owner, "%2F", config["Gitlab"].repo>>,
                    url |-> Str(url), push_events |-> TRUE,
                    enable_ssl_verification |-> (protocol = <<"https">>)])

buildWebhookData(a, options) ==
  CASE a \in GithubFamily -> GithubBuildWebhookData(options)
    [] a = "Gitlab" -> GitlabBuildWebhookData(options)
    [] a = "Bitbucket" -> BitbucketBuildWebhookData(options)

WebhookAlreadyExists(message, cause) ==
  [name |-> "WebhookAlreadyExists", message |-> message, cause |-> cause]

UnknownWebhookError(message, cause) ==
  [name |-> "UnknownWebhookError", message |-> message, cause |-> cause]

\* the catch clause of GithubCommon.createWebhook
GithubWebhookCatch(err) ==
  IF isResponseError(err)
  THEN IF err.text \in HookExistsTexts
       THEN Thrown(WebhookAlreadyExists("Webhook already exists on repository", err))
       ELSE Thrown(UnknownWebhookError("Unknown error creating webhook", err))
  ELSE Thrown(UnknownWebhookError(err.message, err))

\* the catch clause of Gitlab.createWebhook
GitlabWebhookCatch(err) ==
  IF isResponseError(err)
  THEN IF err.text \in HookExistsTexts
       THEN Thrown(WebhookAlreadyExists("Webhook already exists on repository", err))
       ELSE Thrown(UnknownWebhookError("Unknown error creating webhook", err))
  ELSE Thrown(UnknownWebhookError(err.message, err))

\* the catch clause of Bitbucket.createWebhook
BitbucketWebhookCatch(err) ==
  IF isResponseError(err)
  THEN IF err.text \in HookExistsTexts
       THEN Thrown(WebhookAlreadyExists("Webhook already exists on repository", err))
       ELSE Thrown(UnknownWebhookError("Unknown error creating webhook", err))
  ELSE Thrown(UnknownWebhookError(err.message, err))

WebhookCatch(a, err) ==
  CASE a \in GithubFamily -> GithubWebhookCatch(err)
    [] a = "Gitlab" -> GitlabWebhookCatch(err)
    [] a = "Bitbucket" -> BitbucketWebhookCatch(err)

\* the hooks request of each adapter
WebhookRequest(a, data) ==
  CASE a \in GithubFamily -> GithubRequest(a, "POST", <<"/hooks">>, data)
    [] a = "Gitlab" ->
         [method |-> "POST", url |-> GitlabBaseUrl \o <<"/hooks">>, data |-> data,
          auth |-> <<"Private-Token", config[a].password>>,
          accept |-> "application/json"]
    [] a = "Bitbucket" ->
         [method |-> "POST", url |-> BitbucketBaseUrl \o <<"/hooks">>,
          data |-> data, auth |-> <<config[a].username, config[a].password>>,
          accept |-> "application/json"]

\* response.body of a successful hooks request
HookBody == [id |-> "hook-1"]

\* the own fields of two sources copied into one object, the later source
\* winning
Assigned(source, later) ==
  [k \in DOMAIN source \cup DOMAIN later |->
     IF k \in DOMAIN later THEN later[k] ELSE source[k]]

\* Object.assign(this.config, options): the config itself is the target
GitlabAssignIntoConfig(cfg, options) ==
  [config |-> Assigned(cfg, options), params |-> Assigned(cfg, options)]

\* Object.assign({}, this.config, options): the target is a new object, so
\* this.config is read and stays as it is
GitlabAssign(cfg, options) ==
  [config |-> cfg, params |-> Assigned(cfg, options)]

\* the argument each adapter hands to its buildWebhookData, and the config
\* the adapter holds after that
WebhookParams(a, options) ==
  IF a = "Gitlab" THEN GitlabAssign(config[a], options)
  ELSE [config |-> config[a], params |-> options]

\* createWebhook up to its await: the hook data is built inside the try block,
\* so an error of buildWebhookData goes to the catch clause and no request is
\* issued; otherwise the request goes out.  Gitlab builds from config and
\* options merged (the config holds none of the option fields).
createWebhook(a) ==
  /\ pc = "idle"
  /\ \E options \in CreateWebhookOptions :
       LET merged == WebhookParams(a, options)
           built == buildWebhookData(a, merged.params)
       IN
       /\ config' = [config EXCEPT ![a] = merged.config]
       /\ call' = [adapter |-> a, op |-> "createWebhook", arg |-> options]
       /\ IF built.threw
          THEN /\ outcome' = WebhookCatch(a, built.error)
               /\ pc' = "done"
               /\ UNCHANGED requests
          ELSE /\ requests' = <<WebhookRequest(a, built.data)>>
               /\ pc' = "waiting"
               /\ UNCHANGED outcome
  /\ UNCHANGED <<other, attempts, sleeps, lastIndex, logs>>

\* the vendor answers the hooks request
WebhookSettle ==
  /\ pc = "waiting" /\ call.op = "createWebhook"
  /\ \E answer \in {Ok(HookBody)} \cup {Fail(e) : e \in Errors} :
       /\ attempts' = Append(attempts, answer)
       /\ outcome' = IF answer.ok THEN Value(answer.body.id)
                     ELSE WebhookCatch(call.adapter, answer.err)
  /\ pc' = "done"
  /\ UNCHANGED <<config, other, call, requests, sleeps, lastIndex, logs>>

----------------------------------------------------------------------------
(* listFiles *)

\* all sequences over S of length at most n
SeqsUpTo(S, n) == UNION {[1..k -> S] : k \in 0..n}

Paths == {<<"README.md">>, <<"files/", "config.yaml">>, <<"src">>}

\* the tree entries of a vendor's answer
GitTrees == SeqsUpTo([path : Paths, type : {"blob", "tree"}], MaxTree)

BitbucketTrees ==
  SeqsUpTo({[path |-> p, type |-> t, href |-> <<"https://bitbucket/src/">> \o p] :
              p \in Paths, t \in {"commit_file", "commit_directory"}}, MaxTree)

\* the elements of a list joined by a separator token
RECURSIVE Join(_, _)
Join(list, sep) ==
  IF list = <<>> THEN <<>>
  ELSE IF Len(list) = 1 THEN list[1]
  ELSE list[1] \o <<sep>> \o Join(Tail(list), sep)

NonEmpty(x) == x # <<>>

GitlabBranchParam ==
  IF config["Gitlab"].branch # "" THEN <<"ref=", config["Gitlab"].branch>>
  ELSE <<>>

GitlabBuildUrl(url, params) ==
  LET paramString == Join(SelectSeq(params, NonEmpty), "&")
      values == IF paramString # <<>> THEN <<url, paramString>> ELSE <<url>>
  IN Join(values, "?")

\* path.replace('files/', ''): the first occurrence is removed
RECURSIVE ReplaceFiles(_)
ReplaceFiles(path) ==
  IF path = <<>> THEN <<>>
  ELSE IF Head(path) = "files/" THEN Tail(path)
  ELSE <<Head(path)>> \o ReplaceFiles(Tail(path))

Map(f(_), list) == [i \in 1..Len(list) |-> f(list[i])]

\* GithubIsBlob with the wrong type literal: the filter keeps the directories
GithubIsBlobKeepsTrees(tree) == tree.type = "tree"

GithubIsBlob(tree) == tree.type = "blob"

GitlabIsBlob(tree) == tree.type = "blob"

BitbucketIsFile(s) == s.type = "commit_file"

GithubListFilesResult(body) == SelectSeq(body.tree, GithubIsBlob)

GitlabFile(tree) ==
  [path |-> ReplaceFiles(tree.path),
   url |-> GitlabBaseUrl \o <<"/repository/">> \o tree.path]

GitlabListFilesResult(body) == Map(GitlabFile, SelectSeq(body, GitlabIsBlob))

BitbucketFile(s) == [path |-> s.path, url |-> s.href]

BitbucketListFilesResult(body) ==
  Map(BitbucketFile, SelectSeq(body.values, BitbucketIsFile))

ListFilesRequest(a) ==
  CASE a \in GithubFamily ->
         GithubRequest(a, "GET", <<"/git/trees/", config[a].branch>>,
                       [none |-> TRUE])
    [] a = "Gitlab" ->
         [method |-> "GET",
          url |-> GitlabBuildUrl(GitlabBaseUrl \o <<"/repository/tree">>,
                                 <<GitlabBranchParam, <<"per_page=1000">>>>),
          data |-> [none |-> TRUE],
          auth |-> <<"Private-Token", config[a].password>>,
          accept |-> "application/json"]
    [] a = "Bitbucket" ->
         [method |-> "GET", url |-> BitbucketBaseUrl \o <<"/src?pagelen=100">>,
          data |-> [none |-> TRUE],
          auth |-> <<config[a].username, config[a].password>>,
          accept |-> "application/json"]

ListFilesBodies(a) ==
  CASE a \in GithubFamily -> {[tree |-> t] : t \in GitTrees}
    [] a = "Gitlab" -> GitTrees
    [] a = "Bitbucket" -> {[values |-> t] : t \in BitbucketTrees}

ListFilesResult(a, body) ==
  CASE a \in GithubFamily -> GithubListFilesResult(body)
    [] a = "Gitlab" -> GitlabListFilesResult(body)
    [] a = "Bitbucket" -> BitbucketListFilesResult(body)

\* listFiles up to its await: the one request goes out
listFiles(a) ==
  /\ pc = "idle"
  /\ call' = [adapter |-> a, op |-> "listFiles", arg |-> Undef]
  /\ requests' = <<ListFilesRequest(a)>>
  /\ pc' = "waiting"
  /\ UNCHANGED <<config, other, attempts, sleeps, lastIndex, logs, outcome>>

\* the vendor answers; an error of the request is not caught
ListFilesSettle ==
  /\ pc = "waiting" /\ call.op = "listFiles"
  /\ \E answer \in {Ok(b) : b \in ListFilesBodies(call.adapter)}
                     \cup {Fail(e) : e \in Errors} :
       /\ attempts' = Append(attempts, answer)
       /\ outcome' = IF answer.ok
                     THEN Value(ListFilesResult(call.adapter, answer.body))
                     ELSE Thrown(answer.err)
  /\ pc' = "done"
  /\ UNCHANGED <<config, other, call, requests, sleeps, lastIndex, logs>>

----------------------------------------------------------------------------
(* getDefaultBranch *)

BranchLists ==
  SeqsUpTo([name : {"main", "dev"}, default : BOOLEAN], MaxBranches)

\* first() of util/first: the first element of a list, undefined for none
first(values) == IF values = <<>> THEN Undef ELSE Str(<<values[1]>>)

BranchIsDefault(branch) == branch.default

BranchName(branch) == branch.name

\* GitlabDefaultNames without the filter on the default flag
GitlabDefaultNamesUnfiltered(branchResponse) == Map(BranchName, branchResponse)

GitlabDefaultNames(branchResponse) ==
  Map(BranchName, SelectSeq(branchResponse, BranchIsDefault))

GitlabDefaultBranch(branchResponse) == first(GitlabDefaultNames(branchResponse))

DefaultBranchRequest(a) ==
  CASE a \in GithubFamily -> GithubRequest(a, "GET", <<>>, [none |-> TRUE])
    [] a = "Gitlab" ->
         [method |-> "GET",
          url |-> GitlabBaseUrl \o <<"/repository/branches">>,
          data |-> [none |-> TRUE],
          auth |-> <<"Private-Token", config[a].password>>,
          accept |-> "application/json"]
    [] a = "Bitbucket" ->
         [method |-> "GET", url |-> BitbucketBaseUrl \o <<"/branches/default">>,
          data |-> [none |-> TRUE],
          auth |-> <<config[a].username, config[a].password>>,
          accept |-> "none"]

DefaultBranchBodies(a) ==
  CASE a \in GithubFamily -> {[default_branch |-> Str(<<b>>)] : b \in {"main", "dev"}}
    [] a = "Gitlab" -> BranchLists
    [] a = "Bitbucket" -> {[displayId |-> Str(<<b>>)] : b \in {"main", "dev"}}

DefaultBranchResult(a, body) ==
  CASE a \in GithubFamily -> body.default_branch
    [] a = "Gitlab" -> GitlabDefaultBranch(body)
    [] a = "Bitbucket" -> body.displayId

getDefaultBranch(a) ==
  /\ pc = "idle"
  /\ call' = [adapter |-> a, op |-> "getDefaultBranch", arg |-> Undef]
  /\ requests' = <<DefaultBranchRequest(a)>>
  /\ pc' = "waiting"
  /\ UNCHANGED <<config, other, attempts, sleeps, lastIndex, logs, outcome>>

DefaultBranchSettle ==
  /\ pc = "waiting" /\ call.op = "getDefaultBranch"
  /\ \E answer \in {Ok(b) : b \in DefaultBranchBodies(call.adapter)}
                     \cup {Fail(e) : e \in Errors} :
       /\ attempts' = Append(attempts, answer)
       /\ outcome' = IF answer.ok
                     THEN Value(DefaultBranchResult(call.adapter, answer.body))
                     ELSE Thrown(answer.err)
  /\ pc' = "done"
  /\ UNCHANGED <<config, other, call, requests, sleeps, lastIndex, logs>>

----------------------------------------------------------------------------
(* The pull-request operations of Gitlab and Bitbucket *)

\* GitlabPullRequestError with a copied message: updatePullRequestBranch
\* carries the message of mergePullRequest
GitlabPullRequestErrorCopied(op) ==
  IF op = "getPullRequest" THEN JsError("Method not implemented: getPullRequest")
  ELSE IF op = "createPullRequest"
       THEN JsError("Method not implemented: createPullRequest")
       ELSE JsError("Method not implemented: mergePullRequest")

GitlabPullRequestError(op) ==
  CASE op = "getPullRequest" -> JsError("Method not implemented: getPullRequest")
    [] op = "createPullRequest" ->
         JsError("Method not implemented: createPullRequest")
    [] op = "mergePullRequest" ->
         JsError("Method not implemented: mergePullRequest")
    [] op = "updatePullRequestBranch" ->
         JsError("Method not implemented: updatePullRequestBranch")

BitbucketPullRequestError(op) ==
  CASE op = "getPullRequest" -> JsError("Method not implemented: getPullRequest")
    [] op = "createPullRequest" ->
         JsError("Method not implemented: createPullRequest")
    [] op = "mergePullRequest" ->
         JsError("Method not implemented: mergePullRequest")
    [] op = "updatePullRequestBranch" ->
         JsError("Method not implemented: updatePullRequestBranch")

\* an async method whose body is a throw: its promise is rejected at once
UnimplementedCall(a, op) ==
  /\ pc = "idle"
  /\ \E arg \in ExecArgs(op) :
       call' = [adapter |-> a, op |-> op, arg |-> arg]
  /\ outcome' = Thrown(IF a = "Gitlab" THEN GitlabPullRequestError(op)
                       ELSE BitbucketPullRequestError(op))
  /\ pc' = "done"
  /\ UNCHANGED <<config, other, requests, attempts, sleeps, lastIndex, logs>>

----------------------------------------------------------------------------
(* getHeader and getEventName *)

\* the canonical identifiers of git.api
GitHeader == {"event"}
GitEvent == {"push", "pullRequest"}

GithubHeader == [event |-> "X-GitHub-Event"]
GithubEvent == [push |-> "push", pullRequest |-> "pull_request"]
GitlabHeader == [event |-> "X-GitLab-Event"]
GitlabEvent == [push |-> "Push Hook"]
BitbucketHeader == [event |-> "X-Event-Key"]
BitbucketEvent == [push |-> "repo:push"]

\* enumObject[key]: undefined for a key the enum does not have
EnumLookup(enum, key) ==
  IF key \in DOMAIN enum THEN Str(<<enum[key]>>) ELSE Undef

getHeaderResult(a, headerId) ==
  CASE a \in GithubFamily -> EnumLookup(GithubHeader, headerId)
    [] a = "Gitlab" -> EnumLookup(GitlabHeader, headerId)
    [] a = "Bitbucket" -> EnumLookup(BitbucketHeader, headerId)

getEventNameResult(a, eventId) ==
  CASE a \in GithubFamily -> EnumLookup(GithubEvent, eventId)
    [] a = "Gitlab" -> EnumLookup(GitlabEvent, eventId)
    [] a = "Bitbucket" -> EnumLookup(BitbucketEvent, eventId)

getHeader(a) ==
  /\ pc = "idle"
  /\ \E headerId \in GitHeader :
       /\ call' = [adapter |-> a, op |-> "getHeader", arg |-> Str(<<headerId>>)]
       /\ outcome' = Value(getHeaderResult(a, headerId))
  /\ pc' = "done"
  /\ UNCHANGED <<config, other, requests, attempts, sleeps, lastIndex, logs>>

getEventName(a) ==
  /\ pc = "idle"
  /\ \E eventId \in GitEvent :
       /\ call' = [adapter |-> a, op |-> "getEventName", arg |-> Str(<<eventId>>)]
       /\ outcome' = Value(getEventNameResult(a, eventId))
  /\ pc' = "done"
  /\ UNCHANGED <<config, other, requests, attempts, sleeps, lastIndex, logs>>

----------------------------------------------------------------------------
(* Actions *)

Init ==
  /\ \E b \in Branches : config = [a \in Adapters |-> RepoConfig(b)]
  /\ pc = "idle"
  /\ call = NoCall
  /\ requests = <<>>
  /\ attempts = <<>>
  /\ sleeps = <<>>
  /\ lastIndex = 0
  /\ logs = <<>>
  /\ outcome = NoOutcome
  /\ other = NoContext

\* getPullRequest, createPullRequest, mergePullRequest, updatePullRequestBranch
\* of GithubCommon up to the first await: exec is entered with a new regex
\* and f issues its request
GithubExecCall(a, op) ==
  /\ pc = "idle"
  /\ \E arg \in ExecArgs(op) :
       /\ call' = [adapter |-> a, op |-> op, arg |-> arg]
       /\ requests' = <<ExecRequest(a, op, arg)>>
  /\ pc' = "waiting"
  /\ lastIndex' = 0
  /\ UNCHANGED <<config, other, attempts, sleeps, logs, outcome>>

getPullRequest(a) == GithubExecCall(a, "getPullRequest")
createPullRequest(a) == GithubExecCall(a, "createPullRequest")
mergePullRequest(a) == GithubExecCall(a, "mergePullRequest")
updatePullRequestBranch(a) == GithubExecCall(a, "updatePullRequestBranch")

\* the vendor answers the request of f; exec goes on from there
ExecSettle ==
  /\ pc = "waiting"
  /\ call.adapter \in GithubFamily /\ call.op \in ExecOps
  /\ \E answer \in {Ok(PullBody)} \cup {Fail(e) : e \in Errors}, j \in Jitters :
       LET settled == FSettles(call.op, call.arg, answer)
           step == ExecTry(call.op, settled, lastIndex, j)
       IN /\ attempts' = Append(attempts, answer)
          /\ lastIndex' = step.lastIndex
          /\ IF step.act = "retry"
             THEN \* await timer(time), then the loop calls f() again
                  /\ Len(requests) < MaxAttempts
                  /\ sleeps' = Append(sleeps, step.delay)
                  /\ logs' = Append(logs, step.log)
                  /\ requests' = Append(requests,
                                   ExecRequest(call.adapter, call.op, call.arg))
                  /\ UNCHANGED <<pc, outcome>>
             ELSE /\ outcome' = step.outcome
                  /\ pc' = "done"
                  /\ logs' = IF step.act = "throw" THEN Append(logs, step.log)
                             ELSE logs
                  /\ UNCHANGED <<sleeps, requests>>
  /\ UNCHANGED <<config, other, call>>

\* the caller takes the settled result; the next call starts afresh
Return ==
  /\ pc = "done"
  /\ pc' = "idle"
  /\ call' = NoCall
  /\ requests' = <<>>
  /\ attempts' = <<>>
  /\ sleeps' = <<>>
  /\ lastIndex' = 0
  /\ logs' = <<>>
  /\ outcome' = NoOutcome
  /\ UNCHANGED <<config, other>>

Next ==
  \/ \E a \in GithubFamily :
       \/ getPullRequest(a)
       \/ createPullRequest(a)
       \/ mergePullRequest(a)
       \/ updatePullRequestBranch(a)
  \/ ExecSettle
  \/ \E a \in Adapters : createWebhook(a)
  \/ WebhookSettle
  \/ \E a \in Adapters :
       \/ listFiles(a)
       \/ getDefaultBranch(a)
       \/ getHeader(a)
       \/ getEventName(a)
  \/ ListFilesSettle
  \/ DefaultBranchSettle
  \/ \E a \in {"Gitlab", "Bitbucket"}, op \in ExecOps : UnimplementedCall(a, op)
  \/ Return

Spec == Init /\ [][Next]_vars

----------------------------------------------------------------------------
(* Two calls in flight *)

\* the call in progress, as it is kept while another call runs
Context ==
  [pc |-> pc, call |-> call, requests |-> requests, attempts |-> attempts,
   sleeps |-> sleeps, lastIndex |-> lastIndex, logs |-> logs,
   outcome |-> outcome]

\* The operations are async functions on one thread: a call gives up control
\* at its await, and the caller may then start a second call, on this or on
\* another instance, or the answer to the other call's request may arrive
\* first.  The call in progress and the other call change places.
Switch ==
  /\ pc \in {"idle", "waiting"}
  /\ other.pc \in {"idle", "waiting"}
  /\ pc = "waiting" \/ other.pc = "waiting"
  /\ other' = Context
  /\ pc' = other.pc
  /\ call' = other.call
  /\ requests' = other.requests
  /\ attempts' = other.attempts
  /\ sleeps' = other.sleeps
  /\ lastIndex' = other.lastIndex
  /\ logs' = other.logs
  /\ outcome' = other.outcome
  /\ UNCHANGED config

\* The calls followed two at a time are a sample of the calls of Next: hooks
\* without Jenkins credentials and job name, and short lists as answers.
Sampled ==
  /\ call.op = "createWebhook" =>
       /\ ~call.arg.jenkinsUser.def
       /\ ~call.arg.jenkinsPassword.def
       /\ ~call.arg.jobName.def
  /\ (call.op = "listFiles" /\ pc = "done" /\ attempts[1].ok) =>
       Len(CASE call.adapter \in GithubFamily -> attempts[1].body.tree
             [] call.adapter = "Gitlab" -> attempts[1].body
             [] call.adapter = "Bitbucket" -> attempts[1].body.values)
         <= MaxListConcurrent
  /\ (call.op = "getDefaultBranch" /\ call.adapter = "Gitlab" /\ pc = "done"
        /\ attempts[1].ok) =>
       Len(attempts[1].body) <= MaxListConcurrent

NextConcurrent ==
  \/ \E a \in GithubFamily :
       \/ getPullRequest(a) /\ Sampled'
       \/ createPullRequest(a) /\ Sampled'
       \/ mergePullRequest(a) /\ Sampled'
       \/ updatePullRequestBranch(a) /\ Sampled'
  \/ ExecSettle /\ Sampled'
  \/ \E a \in Adapters : createWebhook(a) /\ Sampled'
  \/ WebhookSettle /\ Sampled'
  \/ \E a \in Adapters :
       \/ listFiles(a) /\ Sampled'
       \/ getDefaultBranch(a) /\ Sampled'
       \/ getHeader(a) /\ Sampled'
       \/ getEventName(a) /\ Sampled'
  \/ ListFilesSettle /\ Sampled'
  \/ DefaultBranchSettle /\ Sampled'
  \/ \E a \in {"Gitlab", "Bitbucket"}, op \in ExecOps :
       UnimplementedCall(a, op) /\ Sampled'
  \/ Return /\ Sampled'
  \/ Switch

\* the adapters as constructed for one repository and branch
InitConcurrent ==
  /\ Init
  /\ config = [a \in Adapters |-> RepoConfig("main")]

SpecConcurrent == InitConcurrent /\ [][NextConcurrent]_vars

----------------------------------------------------------------------------
(* Properties of the retry wrapper *)

IsRateLimit403(err) ==
  err.http /\ err.status = 403 /\ err.message \in RateLimitMessages

InExec == call.adapter \in GithubFamily /\ call.op \in ExecOps

\* C1: on the GitHub-family adapter a rate-limit 403 is never surfaced to the
\* caller of getPullRequest, createPullRequest, mergePullRequest or
\* updatePullRequestBranch; when the first N attempts fail with a rate-limit
\* 403 and attempt N+1 succeeds, the call has slept N times, has issued
\* exactly N+1 requests and hands the successful result to the caller.
C1_RateLimitRetried ==
  (InExec /\ pc = "done") =>
    /\ ~(outcome.kind = "error" /\ IsRateLimit403(outcome.error))
    /\ \A n \in 1..MaxAttempts :
         ( /\ Len(attempts) = n + 1
           /\ \A i \in 1..n : ~attempts[i].ok /\ IsRateLimit403(attempts[i].err)
           /\ attempts[n + 1].ok )
         => /\ Len(requests) = n + 1
            /\ Len(sleeps) = n
            /\ outcome = Value(ExecResult(call.op, call.arg, attempts[n + 1].body))

\* C2: every attempt of the retry wrapper that fails with a rate-limit 403 is
\* followed by a sleep and by a re-issue of the identical request; the sleep
\* is 2000..3000 ms for Retry-After: 2 and 30000..30999 ms without the header.
C2_RetryDelayBounds ==
  InExec =>
    \A i \in 1..Len(attempts) :
      (~attempts[i].ok /\ IsRateLimit403(attempts[i].err)) =>
        /\ Len(sleeps) >= i
        /\ Len(requests) >= i + 1
        /\ requests[i + 1] = requests[i]
        /\ (attempts[i].err.retryAfter = Header(2)
              => sleeps[i] >= 2000 /\ sleeps[i] <= 3000)
        /\ (~attempts[i].err.retryAfter.def
              => sleeps[i] >= 30000 /\ sleeps[i] < 31000)

\* C3: a failure of a wrapped GitHub-family operation that is not a 403 with
\* a secondary-rate-limit message ends the call at once: the caller receives
\* that very error, one request was issued for the failed attempt and none
\* after it, and no sleep follows it (for a first attempt: exactly one
\* request and no sleep at all).
C3_OtherErrorsReraised ==
  InExec =>
    \A i \in 1..Len(attempts) :
      (~attempts[i].ok /\ ~IsRateLimit403(attempts[i].err)) =>
        /\ pc = "done"
        /\ i = Len(attempts)
        /\ outcome = Thrown(attempts[i].err)
        /\ Len(requests) = i
        /\ Len(sleeps) = i - 1

\* a 403 without the rate-limit message has been handed to the caller
C3_Witness ==
  /\ InExec /\ pc = "done"
  /\ Len(attempts) = 1 /\ ~attempts[1].ok
  /\ attempts[1].err.status = 403 /\ attempts[1].err.message = "Forbidden"
  /\ outcome = Thrown(attempts[1].err)
  /\ Len(requests) = 1 /\ sleeps = <<>>

----------------------------------------------------------------------------
(* Properties of createWebhook and buildWebhookData *)

InWebhook == call.op = "createWebhook"

\* the text of a url in front of its first "://"
UrlProtocol(tokens) ==
  LET seps == {i \in 1..Len(tokens) : tokens[i] = "://"} IN
  IF seps = {} THEN <<>>
  ELSE SubSeq(tokens, 1, (CHOOSE i \in seps : \A j \in seps : i <= j) - 1)

\* how createWebhook has to settle on the answer to its one request
WebhookExpected(answer) ==
  IF answer.ok THEN Value(answer.body.id)
  ELSE IF answer.err.http /\ answer.err.text = HookExistsText
       THEN Thrown(WebhookAlreadyExists("Webhook already exists on repository",
                                        answer.err))
       ELSE Thrown([name |-> "UnknownWebhookError",
                    message |-> IF answer.err.http
                                THEN "Unknown error creating webhook"
                                ELSE answer.err.message,
                    cause |-> answer.err])

\* the classification of the answers alone, whatever the number of requests
WebhookClassified ==
  (InWebhook /\ pc = "done") =>
    /\ outcome.kind = "error" =>
         outcome.error.name \in {"WebhookAlreadyExists", "UnknownWebhookError"}
    /\ Len(attempts) = 1 => outcome = WebhookExpected(attempts[1])

\* C4: createWebhook of every adapter issues exactly one request per call and
\* settles by its answer: the hook id on success, WebhookAlreadyExists for a
\* failure response whose text holds 'Hook already exists', and
\* UnknownWebhookError with the original error as cause for any other failure.
C4_WebhookOneRequestClassified ==
  (InWebhook /\ pc = "done") =>
    /\ Len(requests) = 1
    /\ Len(attempts) = 1
    /\ outcome = WebhookExpected(attempts[1])

\* C8: whenever webhookUrl is present, createWebhook sends a hook whose url is
\* webhookUrl verbatim, whatever jenkinsUrl, jenkinsUser, jenkinsPassword and
\* jobName are; the url derived from jenkinsUrl is sent only without webhookUrl.
C8_WebhookUrlPrecedence ==
  (InWebhook /\ pc # "idle") =>
    /\ call.arg.webhookUrl.def =>
         /\ Len(requests) = 1
         /\ requests[1].data.url = call.arg.webhookUrl
    /\ (Len(requests) = 1 /\ call.adapter \in GithubFamily
         /\ requests[1].data.url
              = Str(Tpl(call.arg.jenkinsUrl) \o <<"/github-webhook/">>))
         => ~call.arg.webhookUrl.def

\* C10: the hook data Gitlab sends has enable_ssl_verification true exactly
\* when the url it sends starts with https
C10_SslMirrorsSentUrl ==
  (InWebhook /\ call.adapter = "Gitlab" /\ Len(requests) = 1
     /\ call.arg.jenkinsUrl # MalformedJenkinsUrl) =>
    requests[1].data.enable_ssl_verification
      = (UrlProtocol(requests[1].data.url.s) = <<"https">>)

----------------------------------------------------------------------------
(* Properties of the remaining operations *)

Unimplementing == {"Gitlab", "Bitbucket"}

\* C5: getPullRequest, createPullRequest, mergePullRequest and
\* updatePullRequestBranch of Gitlab and Bitbucket fail at once, for every
\* argument, with an error whose message names the operation called; no
\* request is issued and the config is left as it was.
C5_UnimplementedFail ==
  [][ (pc = "idle" /\ call'.adapter \in Unimplementing /\ call'.op \in ExecOps)
      => /\ pc' = "done"
         /\ outcome'.kind = "error"
         /\ ~outcome'.error.http
         /\ outcome'.error.message
              = ( CASE call'.op = "getPullRequest" ->
                         "Method not implemented: getPullRequest"
                    [] call'.op = "createPullRequest" ->
                         "Method not implemented: createPullRequest"
                    [] call'.op = "mergePullRequest" ->
                         "Method not implemented: mergePullRequest"
                    [] call'.op = "updatePullRequestBranch" ->
                         "Method not implemented: updatePullRequestBranch" )
         /\ requests' = <<>> /\ attempts' = <<>> /\ sleeps' = <<>>
         /\ config' = config ]_vars

\* Gitlab has rejected updatePullRequestBranch without a request
C5_Witness ==
  /\ pc = "done" /\ call.adapter = "Gitlab" /\ call.op = "updatePullRequestBranch"
  /\ outcome.kind = "error" /\ requests = <<>>

ResponseEntries(a, body) ==
  CASE a \in GithubFamily -> body.tree
    [] a = "Gitlab" -> body
    [] a = "Bitbucket" -> body.values

FileTypeOf(a) == IF a = "Bitbucket" THEN "commit_file" ELSE "blob"

\* the descriptor listFiles returns for the entry e of the response
Describes(a, file, e) ==
  CASE a \in GithubFamily -> file = e
    [] a = "Gitlab" ->
         file.url = GitlabBaseUrl \o <<"/repository/">> \o e.path
    [] a = "Bitbucket" -> file.path = e.path /\ file.url = e.href

\* C6: listFiles of every adapter issues exactly one request, and on a tree
\* response it returns one descriptor for each file-type entry of the
\* response, in response order, and nothing for the other entries.
C6_ListFilesOnlyFiles ==
  (call.op = "listFiles") =>
    /\ Len(requests) = 1
    /\ (pc = "done" /\ attempts[1].ok) =>
         LET es == ResponseEntries(call.adapter, attempts[1].body)
             files == {i \in 1..Len(es) : es[i].type = FileTypeOf(call.adapter)}
         IN /\ outcome.kind = "value"
            /\ Len(outcome.value) = Cardinality(files)
            /\ \A i \in files :
                 Describes(call.adapter,
                           outcome.value[Cardinality({j \in files : j <= i})],
                           es[i])

\* a response with a directory in front of a file has been filtered
C6_Witness ==
  /\ call.op = "listFiles" /\ pc = "done" /\ attempts[1].ok
  /\ LET es == ResponseEntries(call.adapter, attempts[1].body) IN
       /\ Len(es) >= 2
       /\ es[1].type # FileTypeOf(call.adapter)
       /\ es[2].type = FileTypeOf(call.adapter)
  /\ Len(outcome.value) >= 1

\* C7: Gitlab getDefaultBranch returns the name of the first branch of the
\* response whose default flag is set, and undefined (no error) when no
\* branch of the response is flagged, the empty response included.
C7_GitlabDefaultBranch ==
  (call.adapter = "Gitlab" /\ call.op = "getDefaultBranch" /\ pc = "done"
     /\ attempts[1].ok) =>
    LET bs == attempts[1].body
        flagged == {i \in 1..Len(bs) : bs[i].default}
    IN /\ outcome.kind = "value"
       /\ IF flagged = {} THEN outcome.value = Undef
          ELSE LET m == CHOOSE i \in flagged : \A j \in flagged : i <= j
               IN outcome.value = Str(<<bs[m].name>>)

\* the default branch came second in the response and was returned
C7_Witness ==
  /\ call.adapter = "Gitlab" /\ call.op = "getDefaultBranch" /\ pc = "done"
  /\ attempts[1].ok
  /\ Len(attempts[1].body) >= 2
  /\ ~attempts[1].body[1].default /\ attempts[1].body[2].default
  /\ outcome = Value(Str(<<attempts[1].body[2].name>>))

\* C9: getHeader and getEventName of every adapter return a vendor name, never
\* undefined or the empty string, for every GitHeader and GitEvent value.
C9_EveryIdentifierMapped ==
  (call.op \in {"getHeader", "getEventName"} /\ pc = "done") =>
    /\ outcome.kind = "value"
    /\ outcome.value.def
    /\ outcome.value.s # <<>> /\ outcome.value.s # <<"">>

----------------------------------------------------------------------------
(* Properties of calls in flight together *)

\* the request a call issues first, from its own operation and argument
RequestAlone(c) ==
  CASE c.call.op \in ExecOps ->
         ExecRequest(c.call.adapter, c.call.op, c.call.arg)
    [] c.call.op = "createWebhook" ->
         WebhookRequest(c.call.adapter,
           buildWebhookData(c.call.adapter,
                            Assigned(RepoConfig("main"), c.call.arg)).data)
    [] c.call.op = "listFiles" -> ListFilesRequest(c.call.adapter)
    [] c.call.op = "getDefaultBranch" -> DefaultBranchRequest(c.call.adapter)

\* the result a settled call has from its own argument and answers
OutcomeAlone(c) ==
  CASE c.call.op \in ExecOps /\ c.call.adapter \in GithubFamily ->
         FSettles(c.call.op, c.call.arg, c.attempts[Len(c.attempts)])
    [] c.call.op \in ExecOps /\ c.call.adapter = "Gitlab" ->
         Thrown(GitlabPullRequestError(c.call.op))
    [] c.call.op \in ExecOps /\ c.call.adapter = "Bitbucket" ->
         Thrown(BitbucketPullRequestError(c.call.op))
    [] c.call.op = "createWebhook" ->
         IF c.attempts = <<>> THEN WebhookCatch(c.call.adapter, TypeError)
         ELSE WebhookExpected(c.attempts[1])
    [] c.call.op = "listFiles" ->
         IF c.attempts[1].ok
         THEN Value(ListFilesResult(c.call.adapter, c.attempts[1].body))
         ELSE Thrown(c.attempts[1].err)
    [] c.call.op = "getDefaultBranch" ->
         IF c.attempts[1].ok
         THEN Value(DefaultBranchResult(c.call.adapter, c.attempts[1].body))
         ELSE Thrown(c.attempts[1].err)
    [] c.call.op = "getHeader" ->
         Value(getHeaderResult(c.call.adapter, c.call.arg.s[1]))
    [] c.call.op = "getEventName" ->
         Value(getEventNameResult(c.call.adapter, c.call.arg.s[1]))

\* a call is what it would be with no other call around
CallAlone(c) ==
  /\ c.pc = "idle" => c = NoContext
  /\ c.requests # <<>> => c.requests[1] = RequestAlone(c)
  /\ c.pc = "waiting" => c.outcome = NoOutcome /\ Len(c.requests) = Len(c.attempts) + 1
  /\ c.pc = "done" => c.outcome = OutcomeAlone(c)

\* C11: on every step of any interleaving of two calls, on one instance or on
\* two, the config of every instance stays what the constructor set; the step
\* of one call leaves the other call (its requests, answers, sleeps, regex
\* position, logs and result) as it was, the two changing places untouched
\* when control passes; and each call issues the request and settles with the
\* result that its own operation, argument and answers determine.
C11_CallsIsolated ==
  [][ /\ config' = config
      /\ \/ other' = other
         \/ other' = Context /\ Context' = other
      /\ CallAlone(Context)'
      /\ CallAlone(other)' ]_vars

\* two wrapped calls on the same Github instance: one is suspended at its
\* request, the other has failed with a rate-limit 403
C11_Witness ==
  /\ other.pc = "waiting" /\ other.call.adapter = "Github"
  /\ other.call.op = "mergePullRequest"
  /\ pc = "done" /\ call.adapter = "Github" /\ call.op = "getPullRequest"
  /\ outcome.kind = "error" /\ IsRateLimit403(outcome.error)
  /\ config = [a \in Adapters |-> RepoConfig("main")]

====
